---- MODULE Spec2Model ----
(***************************************************************************)
(* The rules engine of the_snake.py: the snake, the three eatable objects, *)
(* the controller's collision handling and reset, and the main loop.       *)
(* One iteration of the main loop (a tick) is the sequence of steps        *)
(*   events -> check -> death -> move -> draw -> events ...                *)
(* Random draws (randint, choice) are nondeterministic choices.            *)
(***************************************************************************)
EXTENDS Integers, Sequences, FiniteSets, TLC

\* ------------------------------------------------------------- bounds
\* The board is GRID_WIDTH x GRID_HEIGHT cells (32 x 24 in the source); the
\* model checks a smaller torus.
GRID_WIDTH == 3
GRID_HEIGHT == 2
\* Snake.length grows without limit in the source; an Apple is not eaten
\* once the length has reached MaxLength.
MaxLength == 3
\* Most keyboard events handled by one call of handle_events.
MaxEvents == 2

\* ---------------------------------------------------------- constants
GRID_CENTER == <<GRID_WIDTH \div 2, GRID_HEIGHT \div 2>>

UP == <<0, -1>>
DOWN == <<0, 1>>
LEFT == <<-1, 0>>
RIGHT == <<1, 0>>

Directions == {UP, DOWN, LEFT, RIGHT}

DIRECTIONAL_KEYS == {"K_UP", "K_DOWN", "K_LEFT", "K_RIGHT"}

\* Python's None (next_direction, and the history variable last_direction).
None == "None"

Cells == (0 .. GRID_WIDTH - 1) \X (0 .. GRID_HEIGHT - 1)

EatableNames == {"apple", "bad_apple", "stone"}

VARIABLES
    snake,          \* [positions, length, direction, next_direction]
    apple,          \* Apple.position
    bad_apple,      \* BadApple.position
    stone,          \* Stone.position
    pc,             \* where the main loop stands
    n_events,       \* events handled so far by this tick's handle_events
    log,            \* history: the calls made so far in this tick
    spawned,        \* history: the objects the last step gave a new position
    last_direction, \* history: direction of the last move since the last
                    \* snake reset, None when there was none
    last_key,       \* history: the key of the event the last step handled,
                    \* None when it handled none
    occupied_arg,   \* generate_random_coordinates: occupied_coordinates
    coordinates     \* generate_random_coordinates: coordinates

vars == <<snake, apple, bad_apple, stone, pc, n_events, log, spawned,
          last_direction, last_key, occupied_arg, coordinates>>

\* The controller's objects as one value.
Game == [snake |-> snake, apple |-> apple, bad_apple |-> bad_apple,
         stone |-> stone]

\* ------------------------------------------------------------ helpers
Range(s) == {s[i] : i \in 1 .. Len(s)}

Tail1(s) == IF Len(s) = 0 THEN <<>> ELSE Tail(s)

\* The direction opposite to d.
Opposite(d) == <<0 - d[1], 0 - d[2]>>

\* generate_random_coordinates without the test against occupied_coordinates.
generate_any_coordinates(occupied) == Cells

\* generate_random_coordinates: the coordinates the retry loop can return;
\* with none, the loop never ends.
generate_random_coordinates(occupied) == {c \in Cells : c \notin occupied}

\* occupied_coordinates without the positions of the three objects.
occupied_coordinates_snake_only(g) == Range(g.snake.positions)

\* GameController.occupied_coordinates (a list in the source, used only for
\* membership).
occupied_coordinates(g) ==
    Range(g.snake.positions) \cup {g.apple, g.bad_apple, g.stone}

\* Snake.__init__
Snake_init ==
    [positions |-> <<GRID_CENTER>>, length |-> 1, direction |-> RIGHT,
     next_direction |-> None]

\* Snake.get_head_position
get_head_position(s) == s.positions[1]

\* Snake.update_direction
update_direction(s) ==
    IF s.next_direction # None
    THEN [s EXCEPT !.direction = s.next_direction, !.next_direction = None]
    ELSE s

\* handle_key_press without the guards against the opposite direction.
handle_key_press_unguarded(s, key_id) ==
    LET chosen ==
            IF key_id = "K_UP" THEN UP
            ELSE IF key_id = "K_DOWN" THEN DOWN
            ELSE IF key_id = "K_LEFT" THEN LEFT
            ELSE RIGHT
    IN update_direction([s EXCEPT !.next_direction = chosen])

\* Snake.handle_key_press
handle_key_press(s, key_id) ==
    LET chosen ==
            IF key_id = "K_UP" /\ s.direction # DOWN THEN UP
            ELSE IF key_id = "K_DOWN" /\ s.direction # UP THEN DOWN
            ELSE IF key_id = "K_LEFT" /\ s.direction # RIGHT THEN LEFT
            ELSE IF key_id = "K_RIGHT" /\ s.direction # LEFT THEN RIGHT
            ELSE s.next_direction
    IN update_direction([s EXCEPT !.next_direction = chosen])

\* Snake.move without the reduction modulo the grid's width and height.
Snake_move_unwrapped(s) ==
    LET head == get_head_position(s)
        new_position == <<head[1] + s.direction[1], head[2] + s.direction[2]>>
        inserted == <<new_position>> \o s.positions
        kept == IF Len(inserted) > s.length
                THEN SubSeq(inserted, 1, s.length)
                ELSE inserted
    IN [s EXCEPT !.positions = kept]

\* Snake.move with "if" for "while": at most one position is removed.
Snake_move_pops_once(s) ==
    LET head == get_head_position(s)
        new_position == <<(head[1] + s.direction[1]) % GRID_WIDTH,
                          (head[2] + s.direction[2]) % GRID_HEIGHT>>
        inserted == <<new_position>> \o s.positions
        kept == IF Len(inserted) > s.length
                THEN SubSeq(inserted, 1, Len(inserted) - 1)
                ELSE inserted
    IN [s EXCEPT !.positions = kept]

\* Snake.move that removes the last position on every move.
Snake_move_no_growth(s) ==
    LET head == get_head_position(s)
        new_position == <<(head[1] + s.direction[1]) % GRID_WIDTH,
                          (head[2] + s.direction[2]) % GRID_HEIGHT>>
    IN [s EXCEPT !.positions =
            <<new_position>> \o SubSeq(s.positions, 1, Len(s.positions) - 1)]

\* Snake.move
Snake_move(s) ==
    LET head == get_head_position(s)
        new_position == <<(head[1] + s.direction[1]) % GRID_WIDTH,
                          (head[2] + s.direction[2]) % GRID_HEIGHT>>
        inserted == <<new_position>> \o s.positions
        kept == IF Len(inserted) > s.length
                THEN SubSeq(inserted, 1, s.length)
                ELSE inserted
    IN [s EXCEPT !.positions = kept]

\* Snake.reset without "self.length = 1".
Snake_reset_keeps_length(s) ==
    {[s EXCEPT !.positions = <<GRID_CENTER>>, !.direction = d]
        : d \in Directions}

\* Snake.reset: the possible results, one for each direction choice() can
\* return.
Snake_reset(s) ==
    {[s EXCEPT !.positions = <<GRID_CENTER>>, !.length = 1, !.direction = d]
        : d \in Directions}

\* apply_effect with the BadApple taking 2 off the length.
apply_effect_shrinks_by_two(name, s) ==
    IF name = "apple" THEN [s EXCEPT !.length = s.length + 1]
    ELSE IF name = "bad_apple" THEN [s EXCEPT !.length = s.length - 2]
    ELSE [s EXCEPT !.length = 0]

\* Apple.apply_effect, BadApple.apply_effect, Stone.apply_effect
apply_effect(name, s) ==
    IF name = "apple" THEN [s EXCEPT !.length = s.length + 1]
    ELSE IF name = "bad_apple" THEN [s EXCEPT !.length = s.length - 1]
    ELSE [s EXCEPT !.length = 0]

\* The outcome of a call on the game: the game after it, the calls it made,
\* and whether it returned (the spawn loop may never end).
Outcome(g, calls, returned) ==
    [g |-> g, calls |-> calls, returned |-> returned]

\* The entries of log: the calls a step made, in order.
EffectCall(name) == "apply_effect:" \o name
RandomizeCall(name) == "randomize_position:" \o name
ResetCalls == {"check_snake_collision:reset", "main:reset"}

WithCalls(outcomes, calls) ==
    {Outcome(r.g, calls, r.returned) : r \in outcomes}

\* EatableObject.randomize_position
randomize_position(g, name, occupied) ==
    LET free == generate_random_coordinates(occupied)
    IN IF free = {}
       THEN {Outcome(g, <<>>, FALSE)}
       ELSE {Outcome([g EXCEPT ![name] = c], <<>>, TRUE) : c \in free}

\* Snake.eat without the call of randomize_position.
eat_without_respawn(g, name, occupied) ==
    {Outcome([g EXCEPT !.snake = apply_effect(name, g.snake)],
             <<EffectCall(name), RandomizeCall(name)>>, TRUE)}

\* Snake.eat; the caller has computed occupied before the call.
eat(g, name, occupied) ==
    LET fed == [g EXCEPT !.snake = apply_effect(name, g.snake)]
    IN WithCalls(randomize_position(fed, name, occupied),
                 <<EffectCall(name), RandomizeCall(name)>>)

\* One more randomize_position in GameController.reset, with the occupied
\* coordinates read when it is called.
ThenRandomize(outcomes, name) ==
    UNION {IF r.returned
           THEN randomize_position(r.g, name, occupied_coordinates(r.g))
           ELSE {r} : r \in outcomes}

\* GameController.reset with the snake reset after the three respawns.
GameController_reset_snake_last(g) ==
    LET respawned ==
            ThenRandomize(
                ThenRandomize(ThenRandomize({Outcome(g, <<>>, TRUE)}, "apple"),
                              "bad_apple"),
                "stone")
    IN UNION {IF r.returned
              THEN {Outcome([r.g EXCEPT !.snake = s], <<>>, TRUE)
                       : s \in Snake_reset(r.g.snake)}
              ELSE {r} : r \in respawned}

\* GameController.reset
GameController_reset(g) ==
    LET afterSnake == {Outcome([g EXCEPT !.snake = s], <<>>, TRUE)
                          : s \in Snake_reset(g.snake)}
    IN ThenRandomize(
           ThenRandomize(ThenRandomize(afterSnake, "apple"), "bad_apple"),
           "stone")

\* One more test of check_snake_collision_every_contact.
ThenEat(outcomes, name) ==
    UNION {IF r.returned /\ get_head_position(r.g.snake) = r.g[name]
           THEN {Outcome(e.g, r.calls \o e.calls, e.returned)
                    : e \in eat(r.g, name, occupied_coordinates(r.g))}
           ELSE {r} : r \in outcomes}

\* check_snake_collision without a return after a contact: every object on
\* the head's cell is eaten.
check_snake_collision_every_contact(g) ==
    LET eaten == ThenEat(ThenEat(ThenEat({Outcome(g, <<>>, TRUE)}, "apple"),
                                 "bad_apple"),
                         "stone")
    IN UNION {IF r.returned /\ r.calls = <<>>
                 /\ get_head_position(g.snake)
                       \in Range(Tail1(g.snake.positions))
              THEN WithCalls(GameController_reset(g),
                             <<"check_snake_collision:reset">>)
              ELSE {r} : r \in eaten}

\* check_snake_collision without the test of the head against the body.
check_snake_collision_entities_only(g) ==
    LET head == get_head_position(g.snake)
    IN IF head = g.apple
       THEN eat(g, "apple", occupied_coordinates(g))
       ELSE IF head = g.bad_apple
       THEN eat(g, "bad_apple", occupied_coordinates(g))
       ELSE IF head = g.stone
       THEN eat(g, "stone", occupied_coordinates(g))
       ELSE {Outcome(g, <<>>, TRUE)}

\* check_snake_collision with the self-collision setting the length to 0 and
\* leaving the reset to the death check.
check_snake_collision_marks_dead(g) ==
    LET head == get_head_position(g.snake)
    IN IF head = g.apple
       THEN eat(g, "apple", occupied_coordinates(g))
       ELSE IF head = g.bad_apple
       THEN eat(g, "bad_apple", occupied_coordinates(g))
       ELSE IF head = g.stone
       THEN eat(g, "stone", occupied_coordinates(g))
       ELSE IF head \in Range(Tail1(g.snake.positions))
       THEN {Outcome([g EXCEPT !.snake.length = 0], <<>>, TRUE)}
       ELSE {Outcome(g, <<>>, TRUE)}

\* GameController.check_snake_collision
check_snake_collision(g) ==
    LET head == get_head_position(g.snake)
    IN IF head = g.apple
       THEN eat(g, "apple", occupied_coordinates(g))
       ELSE IF head = g.bad_apple
       THEN eat(g, "bad_apple", occupied_coordinates(g))
       ELSE IF head = g.stone
       THEN eat(g, "stone", occupied_coordinates(g))
       ELSE IF head \in Range(Tail1(g.snake.positions))
       THEN WithCalls(GameController_reset(g),
                      <<"check_snake_collision:reset">>)
       ELSE {Outcome(g, <<>>, TRUE)}

\* The death check with "snake.length < 0" for "snake.length == 0".
death_check_negative(g) ==
    IF g.snake.length < 0
    THEN WithCalls(GameController_reset(g), <<"main:reset">>)
    ELSE {Outcome(g, <<>>, TRUE)}

\* main: "if snake.length == 0: controller.reset()"
death_check(g) ==
    IF g.snake.length = 0
    THEN WithCalls(GameController_reset(g), <<"main:reset">>)
    ELSE {Outcome(g, <<>>, TRUE)}

\* The objects an outcome gave a new position.
Respawned(calls) ==
    IF Range(calls) \cap ResetCalls # {} THEN EatableNames
    ELSE {name \in EatableNames : RandomizeCall(name) \in Range(calls)}

\* --------------------------------------------------------------- Init
\* GameController.__init__: the snake, then the three objects, each placed
\* by randomize_position() with no occupied coordinates.
Init ==
    /\ snake = Snake_init
    /\ apple \in generate_random_coordinates({})
    /\ bad_apple \in generate_random_coordinates({})
    /\ stone \in generate_random_coordinates({})
    /\ pc = "events"
    /\ n_events = 0
    /\ log = <<>>
    /\ spawned = EatableNames
    /\ last_direction = None
    /\ last_key = None
    /\ occupied_arg = {}
    /\ coordinates = None

\* ------------------------------------------------------------ actions
\* The game after an outcome r, and the next step of the loop.
Apply(r, next) ==
    /\ snake' = r.g.snake
    /\ apple' = r.g.apple
    /\ bad_apple' = r.g.bad_apple
    /\ stone' = r.g.stone
    /\ log' = log \o r.calls
    /\ spawned' = Respawned(r.calls)
    /\ pc' = IF r.returned THEN next ELSE "starved"
    /\ last_key' = None

\* handle_events: one KEYDOWN event of a directional key.
KeyDown(key_id) ==
    /\ pc = "events"
    /\ UNCHANGED <<occupied_arg, coordinates>>
    /\ n_events < MaxEvents
    /\ n_events' = n_events + 1
    /\ snake' = handle_key_press(snake, key_id)
    /\ last_key' = key_id
    /\ spawned' = {}
    /\ UNCHANGED <<apple, bad_apple, stone, pc, log, last_direction>>

\* handle_events: a QUIT event ends the program.
Quit ==
    /\ pc = "events"
    /\ UNCHANGED <<occupied_arg, coordinates>>
    /\ pc' = "quit"
    /\ spawned' = {}
    /\ last_key' = None
    /\ UNCHANGED <<snake, apple, bad_apple, stone, n_events, log,
                   last_direction>>

\* handle_events: no event is left.
EventsDone ==
    /\ pc = "events"
    /\ UNCHANGED <<occupied_arg, coordinates>>
    /\ pc' = "check"
    /\ n_events' = 0
    /\ spawned' = {}
    /\ last_key' = None
    /\ UNCHANGED <<snake, apple, bad_apple, stone, log, last_direction>>

\* main: controller.check_snake_collision()
CheckSnakeCollision ==
    /\ pc = "check"
    /\ UNCHANGED <<occupied_arg, coordinates>>
    /\ ~(get_head_position(snake) = apple /\ snake.length >= MaxLength)
    /\ \E r \in check_snake_collision(Game) :
          /\ Apply(r, "death")
          /\ last_direction' =
                IF Range(r.calls) \cap ResetCalls # {} THEN None
                ELSE last_direction
    /\ UNCHANGED n_events

\* main: the reset of a snake of length 0
DeathCheck ==
    /\ pc = "death"
    /\ UNCHANGED <<occupied_arg, coordinates>>
    /\ \E r \in death_check(Game) :
          /\ Apply(r, "move")
          /\ last_direction' =
                IF Range(r.calls) \cap ResetCalls # {} THEN None
                ELSE last_direction
    /\ UNCHANGED n_events

\* main: snake.move()
Move ==
    /\ pc = "move"
    /\ UNCHANGED <<occupied_arg, coordinates>>
    /\ snake' = Snake_move(snake)
    /\ log' = Append(log, "move")
    /\ last_direction' = snake.direction
    /\ spawned' = {}
    /\ pc' = "draw"
    /\ UNCHANGED <<apple, bad_apple, stone, n_events, last_key>>

\* main: the draw calls, display update and clock tick end the iteration.
Draw ==
    /\ pc = "draw"
    /\ UNCHANGED <<occupied_arg, coordinates>>
    /\ pc' = "events"
    /\ log' = <<>>
    /\ spawned' = {}
    /\ UNCHANGED <<snake, apple, bad_apple, stone, n_events, last_direction,
                   last_key>>

Next ==
    \/ \E key_id \in DIRECTIONAL_KEYS : KeyDown(key_id)
    \/ Quit
    \/ EventsDone
    \/ CheckSnakeCollision
    \/ DeathCheck
    \/ Move
    \/ Draw

Spec == Init /\ [][Next]_vars

\* ------------------------------------------- the spawn loop on its own
\* The test with "in" for "not in".
coordinates_taken(c, taken) == c \in taken

\* generate_random_coordinates: "if coordinates not in occupied_coordinates"
coordinates_free(c, taken) == c \notin taken

\* A call of generate_random_coordinates with any occupied coordinates.
SpawnInit ==
    /\ occupied_arg \in SUBSET Cells
    /\ coordinates = None
    /\ pc = "randint"
    /\ snake = Snake_init
    /\ apple = GRID_CENTER
    /\ bad_apple = GRID_CENTER
    /\ stone = GRID_CENTER
    /\ n_events = 0
    /\ log = <<>>
    /\ spawned = {}
    /\ last_direction = None
    /\ last_key = None

\* The two randint draws of one iteration of the loop.
Randint(c) ==
    /\ pc = "randint"
    /\ coordinates' = c
    /\ pc' = "test"
    /\ UNCHANGED <<snake, apple, bad_apple, stone, n_events, log, spawned,
                   last_direction, last_key, occupied_arg>>

\* The test that ends the loop or starts its next iteration.
TestCoordinates ==
    /\ pc = "test"
    /\ pc' = IF coordinates_free(coordinates, occupied_arg)
             THEN "returned"
             ELSE "randint"
    /\ UNCHANGED <<snake, apple, bad_apple, stone, n_events, log, spawned,
                   last_direction, last_key, occupied_arg, coordinates>>

SpawnNext ==
    \/ \E c \in Cells : Randint(c)
    \/ TestCoordinates

\* Fair draws: the test is always made, and no cell is left out forever.
SpawnSpec ==
    /\ SpawnInit
    /\ [][SpawnNext]_vars
    /\ WF_vars(TestCoordinates)
    /\ \A c \in Cells : SF_vars(Randint(c))

\* ------------------------------------------------------------- typing
TypeOK ==
    /\ snake.direction \in Directions
    /\ snake.next_direction = None
    /\ Range(snake.positions) \subseteq Cells
    /\ {apple, bad_apple, stone} \subseteq Cells
    /\ pc \in {"events", "check", "death", "move", "draw", "quit", "starved"}
    /\ n_events \in 0 .. MaxEvents

\* ------------------------------------------------------------- claims
\* The cell next to c in direction d on the torus.
Neighbour(c, d) ==
    <<(c[1] + d[1]) % GRID_WIDTH, (c[2] + d[2]) % GRID_HEIGHT>>

KeyDirection(key_id) ==
    IF key_id = "K_UP" THEN UP
    ELSE IF key_id = "K_DOWN" THEN DOWN
    ELSE IF key_id = "K_LEFT" THEN LEFT
    ELSE RIGHT

Logged(call) == call \in Range(log)

\* The calls the step made.
NewCalls == SubSeq(log', Len(log) + 1, Len(log'))

\* C1 as stated: a tick in which the length is 0 at the death check ends
\* (after the reset, the move being skipped) with the snake being one segment
\* at the board center with length 1.
C1_ResetSkipsMove ==
    (pc = "draw" /\ Logged("main:reset"))
        => /\ snake.positions = <<GRID_CENTER>>
           /\ snake.length = 1
           /\ ~Logged("move")

\* C1 amended: the length is never 0 once the death check is done; a tick in
\* which it was 0 at the death check has the whole game reset and then the
\* move made, so that it ends with the snake being one segment on the cell
\* next to the board center in the snake's direction, with length 1.
C1_ResetThenMove ==
    /\ pc \in {"move", "draw"} => snake.length # 0
    /\ (pc = "move" /\ Logged("main:reset"))
          => /\ snake.positions = <<GRID_CENTER>>
             /\ snake.length = 1
    /\ (pc = "draw" /\ Logged("main:reset"))
          => /\ log[Len(log)] = "move"
             /\ snake.positions = <<Neighbour(GRID_CENTER, snake.direction)>>
             /\ snake.length = 1

C1_Witness ==
    /\ pc = "draw"
    /\ Logged("main:reset")
    /\ Logged(EffectCall("bad_apple"))
    /\ snake.positions # <<GRID_CENTER>>

\* C2 as stated: the direction a move uses is never the opposite of the
\* direction the move before it used, when no reset happened in between.
C2_NoReversal ==
    (pc = "move" /\ last_direction # None)
        => snake.direction # Opposite(last_direction)

\* C3: a single direction request is accepted (the direction becomes the
\* requested one) iff it is not the reverse of the current direction; a
\* reverse request changes nothing; positions and length are never changed.
C3_SingleRequest ==
    [][last_key' # None =>
          /\ snake'.direction =
                IF KeyDirection(last_key') = Opposite(snake.direction)
                THEN snake.direction
                ELSE KeyDirection(last_key')
          /\ snake'.positions = snake.positions
          /\ snake'.length = snake.length
          /\ snake'.next_direction = None
          /\ <<apple, bad_apple, stone>>' = <<apple, bad_apple, stone>>]_vars

\* A reverse request has been dropped, and another has been accepted.
C3_Witness ==
    /\ pc = "events"
    /\ n_events = 2
    /\ last_key = "K_LEFT"
    /\ snake.direction = RIGHT
    /\ Len(snake.positions) = 2

Position(name) ==
    IF name = "apple" THEN apple
    ELSE IF name = "bad_apple" THEN bad_apple
    ELSE stone

Entities == {apple, bad_apple, stone}

SelfCollision ==
    get_head_position(snake) \in Range(Tail1(snake.positions))

\* The step is a whole call of check_snake_collision.
CheckStep == pc = "check" /\ pc' # "check"

\* The step is a move that does not reverse the move before it.
StraightMoveStep ==
    /\ pc = "move" /\ pc' = "draw"
    /\ last_direction # None => snake.direction # Opposite(last_direction)

\* C4 as stated (for the moves that do not reverse the snake): a move that
\* sends the head to a cell one of the body segments is on at the moment of
\* the move, the last one included, has the snake marked Dead or the game
\* reset by the collision check that follows.
C4_MoveIntoBodyResets ==
    [][(/\ StraightMoveStep
        /\ Neighbour(get_head_position(snake), snake.direction)
              \in Range(snake.positions))
          => \A r \in check_snake_collision(Game') :
                \/ r.calls = <<"check_snake_collision:reset">>
                \/ r.g.snake.length = 0]_vars

\* C4 amended: a non-growing move onto the cell of the last segment, which
\* that move removes, is no collision. When the head is on a cell of the
\* body after the move, the collision check that follows resets the game
\* (without setting the length to 0), unless one of the objects lies on the
\* head's cell: then that contact is resolved instead and no reset is made
\* by the collision check.
C4_CollisionAfterMove ==
    [][/\ (/\ pc = "move" /\ pc' = "draw"
           /\ Len(snake.positions) >= snake.length
           /\ Neighbour(get_head_position(snake), snake.direction)
                 \notin Range(SubSeq(snake.positions, 1,
                                     Len(snake.positions) - 1)))
          => ~SelfCollision'
       /\ (CheckStep /\ SelfCollision)
          => IF get_head_position(snake) \in Entities
             THEN /\ NewCalls # <<>>
                  /\ NewCalls[1] \in {EffectCall(n) : n \in EatableNames}
                  /\ "check_snake_collision:reset" \notin Range(NewCalls)
             ELSE /\ NewCalls = <<"check_snake_collision:reset">>
                  /\ pc' = "death"
                  /\ snake'.positions = <<GRID_CENTER>>
                  /\ snake'.length = 1]_vars

C4_Witness ==
    /\ pc = "death"
    /\ Logged("check_snake_collision:reset")
    /\ last_direction = None

\* C5 as stated: the self-collision step, with no object on the head's
\* cell, marks the snake Dead, applies no effect and leaves the positions of
\* the three objects as they were.
C5_SelfCollisionLeavesEntities ==
    [][(CheckStep /\ SelfCollision
        /\ get_head_position(snake) \notin Entities)
          => /\ snake'.length = 0
             /\ <<apple, bad_apple, stone>>' = <<apple, bad_apple, stone>>
             /\ NewCalls = <<>>]_vars

\* C5 amended: the self-collision step, with no object on the head's cell,
\* applies no effect, and it is itself the reset of the whole game: the snake
\* is not marked Dead, it is one segment at the board center with length 1
\* after the step, and each of the three objects is on a cell other than the
\* one it was on.
C5_SelfCollisionResetsGame ==
    [][(CheckStep /\ SelfCollision
        /\ get_head_position(snake) \notin Entities)
          => /\ NewCalls = <<"check_snake_collision:reset">>
             /\ snake'.positions = <<GRID_CENTER>>
             /\ snake'.length = 1
             /\ apple' # apple
             /\ bad_apple' # bad_apple
             /\ stone' # stone]_vars

C5_Witness ==
    /\ pc = "move"
    /\ log = <<"check_snake_collision:reset">>
    /\ spawned = {}

\* C6 as stated: every object a step (or the construction) has given a
\* position is on no cell of the snake and on no other object's cell.
C6_SpawnAvoidsOccupied ==
    \A name \in spawned :
        /\ Position(name) \notin Range(snake.positions)
        /\ \A other \in EatableNames \ {name} :
              Position(other) # Position(name)

\* C7: a respawn that returns puts the object on a cell of the board outside
\* the occupied coordinates passed to it, which hold the snake's cells and
\* the cells of the three objects, the respawned one's own included.
C7_SpawnExclusion ==
    [][(spawned' # {} /\ pc' # "starved")
          => IF Range(NewCalls) \cap ResetCalls # {}
             THEN /\ {apple', bad_apple', stone'} \subseteq Cells
                  /\ apple' \notin Range(snake'.positions)
                                     \cup {apple, bad_apple, stone}
                  /\ bad_apple' \notin Range(snake'.positions)
                                     \cup {apple', bad_apple, stone}
                  /\ stone' \notin Range(snake'.positions)
                                     \cup {apple', bad_apple', stone}
             ELSE \A name \in spawned' :
                     /\ Game'[name] \in Cells
                     /\ Game'[name] \notin occupied_coordinates(Game)]_vars

\* A consumed Apple has respawned while the snake was longer than one cell.
C7_Witness ==
    /\ pc = "death"
    /\ spawned = {"apple"}
    /\ Len(snake.positions) = 2

Canonical(s) ==
    /\ s.positions = <<GRID_CENTER>>
    /\ s.length = 1
    /\ s.next_direction = None
    /\ s.direction \in Directions

\* The last step was a reset of the game that returned.
AfterReset ==
    /\ pc \in {"death", "move"}
    /\ log # <<>>
    /\ log[Len(log)] \in ResetCalls

\* C8 as stated: whatever the snake's state, Snake.reset yields one segment
\* at the board center, length 1, direction Right and no pending direction.
C8_ResetFacesRight == AfterReset => snake = Snake_init

\* C8 amended: whatever the snake's state, Snake.reset yields one segment at
\* the board center, length 1 and no pending direction, and so does a second
\* reset right after it; the direction is one of the four, drawn by each
\* reset, not always Right.
C8_ResetIsCanonical ==
    /\ \A r \in Snake_reset(snake) :
          /\ Canonical(r)
          /\ \A again \in Snake_reset(r) : Canonical(again)
    /\ AfterReset => Canonical(snake)

\* A snake of more than one segment has been reset and does not face Right.
C8_Witness ==
    /\ AfterReset
    /\ pc = "death"
    /\ snake.direction = LEFT
    /\ last_key = None

\* C9: after a reset of the whole game the snake is one segment at the board
\* center, each of the three objects is on a new cell, none of them is on the
\* board center (the snake was reset first), and the three cells differ.
C9_ResetRespawnsAll ==
    [][(Range(NewCalls) \cap ResetCalls # {} /\ pc' # "starved")
          => /\ snake'.positions = <<GRID_CENTER>>
             /\ GRID_CENTER \notin Entities'
             /\ Cardinality(Entities') = 3
             /\ apple' # apple
             /\ bad_apple' # bad_apple
             /\ stone' # stone
             /\ spawned' = EatableNames]_vars

\* The game has been reset after the Stone was eaten away from the center.
C9_Witness ==
    /\ pc = "move"
    /\ log = <<EffectCall("stone"), RandomizeCall("stone"), "main:reset">>
    /\ last_direction = None

\* The first object, in the order Apple, BadApple, Stone, on the head's cell.
FirstContact ==
    IF get_head_position(snake) = apple THEN "apple"
    ELSE IF get_head_position(snake) = bad_apple THEN "bad_apple"
    ELSE IF get_head_position(snake) = stone THEN "stone"
    ELSE None

EatCalls ==
    {EffectCall(n) : n \in EatableNames}
        \cup {RandomizeCall(n) : n \in EatableNames}

EffectCount(calls) ==
    Cardinality({i \in 1 .. Len(calls) :
                    calls[i] \in {EffectCall(n) : n \in EatableNames}})

\* C10: the collision check resolves the first contact only, in the order
\* Apple, BadApple, Stone: that object's effect is applied once (+1, -1, set
\* to 0), followed by one respawn of that object, and the other objects keep
\* their cells; no other step applies an effect, a tick applies at most one,
\* and only a reset moves an object that was not eaten.
C10_OneContactPerTick ==
    [][/\ EffectCount(log') <= 1
       /\ CheckStep
          => IF FirstContact = None
             THEN Range(NewCalls) \cap EatCalls = {}
             ELSE /\ NewCalls = <<EffectCall(FirstContact),
                                  RandomizeCall(FirstContact)>>
                  /\ snake'.length =
                        IF FirstContact = "apple" THEN snake.length + 1
                        ELSE IF FirstContact = "bad_apple"
                        THEN snake.length - 1
                        ELSE 0
                  /\ snake'.positions = snake.positions
                  /\ pc' = "death"
                        => Game'[FirstContact] # Game[FirstContact]
                  /\ \A other \in EatableNames \ {FirstContact} :
                        Game'[other] = Game[other]
       /\ ~CheckStep => Range(NewCalls) \cap EatCalls = {}
       /\ Range(NewCalls) \cap (ResetCalls \cup EatCalls) = {}
          => <<apple, bad_apple, stone>>' = <<apple, bad_apple, stone>>]_vars

\* The Apple and the BadApple were both on the head's cell: the Apple alone
\* has been eaten.
C10_Witness ==
    /\ pc = "death"
    /\ log = <<EffectCall("apple"), RandomizeCall("apple")>>
    /\ get_head_position(snake) = bad_apple
    /\ snake.length = 2

\* The snake is one segment with length 1, the Apple is on the cell next to
\* it in its direction, and no object is on the snake's cell.
AppleAhead ==
    /\ Len(snake.positions) = 1
    /\ snake.length = 1
    /\ apple = Neighbour(get_head_position(snake), snake.direction)
    /\ get_head_position(snake) \notin Entities

\* C11 as stated: with the snake one segment facing Right, length 1, and the
\* Apple on the next cell to the right, the collision check of that tick
\* detects the contact: the length becomes 2 and the Apple respawns.
C11_ContactBeforeArrival ==
    [][(CheckStep /\ AppleAhead /\ snake.direction = RIGHT)
          => /\ snake'.length = 2
             /\ apple' # apple]_vars

\* C11 amended: in that tick (no object being on the snake's cell) the
\* collision check detects nothing and changes nothing, and the move puts the
\* one-segment snake on the Apple's cell with length still 1; the contact is
\* detected by the collision check of the next tick, where the length
\* becomes 2 and the Apple respawns elsewhere, and that tick's move leaves
\* the two segments [q + d, q], q being the cell the Apple was on and d the
\* direction of that move.
C11_ContactAfterArrival ==
    [][/\ (CheckStep /\ AppleAhead /\ snake.direction = RIGHT)
          => /\ NewCalls = <<>>
             /\ Game' = Game
       /\ (pc = "move" /\ pc' = "draw" /\ AppleAhead
            /\ snake.direction = RIGHT)
          => /\ snake'.positions = <<apple>>
             /\ snake'.length = 1
             /\ apple' = apple
       /\ (CheckStep /\ snake.positions = <<apple>> /\ snake.length = 1
            /\ pc' = "death")
          => /\ snake'.length = 2
             /\ snake'.positions = snake.positions
             /\ apple' # apple
       /\ (pc = "move" /\ pc' = "draw" /\ Len(snake.positions) = 1
            /\ log = <<EffectCall("apple"), RandomizeCall("apple")>>)
          => snake'.positions =
                <<Neighbour(get_head_position(snake), snake.direction),
                  get_head_position(snake)>>]_vars

\* The snake has arrived on the Apple's cell from the left, eaten it in the
\* next tick and moved on with two segments.
C11_Witness ==
    /\ pc = "draw"
    /\ log = <<EffectCall("apple"), RandomizeCall("apple"), "move">>
    /\ Len(snake.positions) = 2
    /\ snake.positions[2] = Neighbour(GRID_CENTER, RIGHT)

\* C12: in a tick whose collision check finds the head on the Apple's cell,
\* the positions are unchanged until the move, and the move leaves the new
\* head followed by all the previous positions (one more segment); in a tick
\* with no contact and no reset the move leaves as many segments as before.
C12_GrowthAtNextMove ==
    [][/\ (CheckStep /\ FirstContact = "apple")
          => snake'.positions = snake.positions
       /\ (pc = "death" /\ pc' = "move"
            /\ log = <<EffectCall("apple"), RandomizeCall("apple")>>)
          => snake' = snake
       /\ (pc = "move" /\ pc' = "draw"
            /\ log = <<EffectCall("apple"), RandomizeCall("apple")>>)
          => snake'.positions =
                <<Neighbour(get_head_position(snake), snake.direction)>>
                    \o snake.positions
       /\ (pc = "move" /\ pc' = "draw" /\ log = <<>>)
          => Len(snake'.positions) = Len(snake.positions)]_vars

\* A snake of two segments has eaten the Apple and grown to three.
C12_Witness ==
    /\ pc = "draw"
    /\ log = <<EffectCall("apple"), RandomizeCall("apple"), "move">>
    /\ Len(snake.positions) = 3

\* C13: the snake's positions are never empty. Snake.move inserts the new
\* head before it removes positions down to length, so within a move the
\* shortest the sequence gets is min(Len + 1, length), and the length is at
\* least 1 whenever a move starts.
C13_PositionsNeverEmpty ==
    /\ Len(snake.positions) >= 1
    /\ pc = "move" => snake.length >= 1

\* The Stone was eaten, the game reset and the snake moved: one segment.
C13_Witness ==
    /\ pc = "draw"
    /\ Logged(EffectCall("stone"))
    /\ Logged("main:reset")
    /\ Len(snake.positions) = 1

\* C14: the length is never negative and is at least 1 when a move starts;
\* it is 0 only between the collision check that applied one effect and the
\* death check; a BadApple eaten at length 1 makes it 0, and the reset then
\* follows in the same tick with no other effect applied and before the move.
C14_LengthNeverNegative ==
    /\ snake.length >= 0
    /\ pc = "move" => snake.length >= 1
    /\ snake.length = 0
          => /\ pc \in {"death", "starved"}
             /\ Len(log) = 2
             /\ EffectCount(log) = 1
    /\ (pc \in {"move", "draw"} /\ Logged(EffectCall("bad_apple"))
        /\ Logged("main:reset"))
          => /\ SubSeq(log, 1, 3) = <<EffectCall("bad_apple"),
                                       RandomizeCall("bad_apple"),
                                       "main:reset">>
             /\ EffectCount(log) = 1
    /\ (pc \in {"move", "draw"} /\ Logged(EffectCall("bad_apple"))
        /\ ~Logged("main:reset"))
          => snake.length >= 1

\* The BadApple has been eaten at length 1: the length is 0 at the death
\* check.
C14_Witness ==
    /\ pc = "death"
    /\ snake.length = 0
    /\ log = <<EffectCall("bad_apple"), RandomizeCall("bad_apple")>>

\* The cell a move from cell c in direction d leads to, leaving one edge of
\* the board re-entering at the opposite edge.
ThroughEdge(c, d) ==
    <<IF c[1] + d[1] = GRID_WIDTH THEN 0
      ELSE IF c[1] + d[1] = -1 THEN GRID_WIDTH - 1
      ELSE c[1] + d[1],
      IF c[2] + d[2] = GRID_HEIGHT THEN 0
      ELSE IF c[2] + d[2] = -1 THEN GRID_HEIGHT - 1
      ELSE c[2] + d[2]>>

InBounds(c) ==
    /\ 0 <= c[1] /\ c[1] < GRID_WIDTH
    /\ 0 <= c[2] /\ c[2] < GRID_HEIGHT

\* C15: every position of the snake and of the three objects is on the
\* board, and a move puts the head on the head's cell plus the direction,
\* reduced modulo the width and the height.
C15_Wraparound ==
    /\ [](/\ \A i \in 1 .. Len(snake.positions) :
                InBounds(snake.positions[i])
           /\ \A name \in EatableNames : InBounds(Position(name)))
    /\ [][(pc = "move" /\ pc' = "draw")
             => /\ get_head_position(snake')
                      = ThroughEdge(get_head_position(snake), snake.direction)
                /\ InBounds(get_head_position(snake'))]_vars

\* The head has left the board to the left and re-entered on the right.
C15_Witness ==
    /\ pc = "draw"
    /\ last_direction = LEFT
    /\ get_head_position(snake)[1] = GRID_WIDTH - 1
    /\ Len(snake.positions) = 2
    /\ snake.positions[2][1] = 0

\* C16: under fair draws the retry loop returns whenever the occupied
\* coordinates do not cover the board, and what it returns is one of the
\* coordinates generate_random_coordinates can return; it never returns when
\* they cover the board.
C16_SpawnLoop ==
    /\ (occupied_arg # Cells) ~> (pc = "returned")
    /\ [](occupied_arg = Cells => pc # "returned")
    /\ [](pc = "returned"
            => coordinates \in generate_random_coordinates(occupied_arg))
    /\ [](generate_random_coordinates(occupied_arg) = {}
            <=> occupied_arg = Cells)

\* The loop has returned the only free cell of the board.
C16_Witness ==
    /\ pc = "returned"
    /\ occupied_arg = Cells \ {GRID_CENTER}
    /\ coordinates = GRID_CENTER

\* C17 as stated: whenever the head is on a cell of the body at the collision
\* check, the game is reset in that tick (by the collision check, or by the
\* death check after it when the length has been set to 0), whether or not
\* an object is on the head's cell.
C17_SelfCollisionAlwaysChecked ==
    [][(CheckStep /\ SelfCollision /\ pc' = "death")
          => \/ "check_snake_collision:reset" \in Range(NewCalls)
             \/ snake'.length = 0]_vars

\* C18: when a tick ends, and until the next collision check, the snake has
\* as many segments as its length; after an Apple one more than when the
\* tick started, after a BadApple eaten at length L >= 2 the new head
\* followed by the first L - 2 previous positions, after a reset exactly 1.
C18_SegmentsEqualLength ==
    /\ [](pc \in {"draw", "events", "check"}
            => Len(snake.positions) = snake.length)
    /\ [](pc = "draw" /\ (Logged("main:reset")
                           \/ Logged("check_snake_collision:reset"))
            => Len(snake.positions) = 1)
    /\ [][(pc = "move" /\ pc' = "draw")
             => IF log = <<EffectCall("apple"), RandomizeCall("apple")>>
                THEN Len(snake'.positions) = Len(snake.positions) + 1
                ELSE IF log = <<EffectCall("bad_apple"),
                                RandomizeCall("bad_apple")>>
                THEN /\ Len(snake.positions) >= 2
                     /\ snake'.positions =
                           <<Neighbour(get_head_position(snake),
                                       snake.direction)>>
                               \o SubSeq(snake.positions, 1,
                                         Len(snake.positions) - 2)
                ELSE TRUE]_vars

\* A BadApple was eaten at length 3: two segments are left.
C18_Witness ==
    /\ pc = "draw"
    /\ log = <<EffectCall("bad_apple"), RandomizeCall("bad_apple"), "move">>
    /\ Len(snake.positions) = 2
    /\ snake.length = 2

\* C19: no step, and so no tick, makes two of three pairwise distinct objects
\* share a cell.
C19_DistinctnessPreserved ==
    [][Cardinality(Entities) = 3 => Cardinality(Entities') = 3]_vars

\* The objects were distinct, the BadApple was eaten and respawned, and they
\* are distinct after the tick.
C19_Witness ==
    /\ pc = "draw"
    /\ Cardinality(Entities) = 3
    /\ log = <<EffectCall("bad_apple"), RandomizeCall("bad_apple"), "move">>
    /\ Len(snake.positions) = 1

====
